---- MODULE Spec2Model ----
(***************************************************************************)
(* A model of the generic table of src/src/mtftable.c: a table of          *)
(* key/value pairs kept in a doubly linked list (dlist), with a key        *)
(* comparison function and optional key and value free functions.          *)
(*                                                                         *)
(* Keys and values are opaque handles (void pointers).  A key handle       *)
(* points to a key object whose content the comparison function reads; a   *)
(* key object that has been passed to the key free function is dangling,   *)
(* and a comparison that reads it has an undefined result.                 *)
(***************************************************************************)
EXTENDS Integers, Sequences, FiniteSets

\* ------------------------------------------------------------- bounds

\* The largest number of entries the modelled table holds at once.
MaxEntries == 3

\* Value handles are 0..MaxValue; 0 is the NULL pointer.
MaxValue == 1

\* ---------------------------------------------------- handles, callers

NULL == 0

Values == NULL..MaxValue

\* The key objects of the caller: as many as the table can hold, so that a
\* key argument is a stored key object or, while the table is not full, a
\* key object the table does not store.
KeyHandles == 1..MaxEntries

\* What the key object behind a handle holds (several objects hold the same).
Content(h) == h % 2

\* The function pointers a caller may pass to table_empty().
CompareFunctions == {"compare_content"}

FreeFunctions == {"NULL", "free"}

\* What a comparison that reads a dangling key object may return: only
\* whether the result is zero is observed by the table.
UBResults == {0, 1}

\* The undefined results a table_remove(key) can meet, one for each
\* comparison that reads a freed key object.  The call frees a key object
\* and compares it afterwards only if the key argument is a key object the
\* list l stores and the table has a key free function: then the argument
\* dangles once its own entry has been freed, in the comparison with each
\* entry behind that one.
OraclesFor(l, key, key_free_func) ==
    LET at == {i \in DOMAIN l : l[i].key = key}
        n  == IF at = {} \/ key_free_func = "NULL"
              THEN 0
              ELSE Len(l) - (CHOOSE i \in at : TRUE)
    IN  [1..n -> UBResults]

\* The comparison function, on two live key objects: negative, zero or
\* positive.
compare_function(f, a, b) == Content(a) - Content(b)

\* t->key_cmp_func(a, b) as called by the table: `freed` are the key
\* objects already passed to the key free function, u is the undefined
\* result of a comparison that reads one of them.
key_cmp_call(f, a, b, freed, u) ==
    IF a \in freed \/ b \in freed THEN u ELSE compare_function(f, a, b)

\* --------------------------------------------------------------- dlist
\* The ordered-sequence collaborator (dlist.h): a position is an index,
\* the end position is one past the last element.

dlist_empty == << >>

dlist_is_empty(l) == Len(l) = 0

dlist_first(l) == 1

dlist_is_end(l, pos) == pos > Len(l)

dlist_next(l, pos) == pos + 1

dlist_inspect(l, pos) == l[pos]

\* Inserts v before pos.
dlist_insert(l, v, pos) ==
    SubSeq(l, 1, pos - 1) \o << v >> \o SubSeq(l, pos, Len(l))

\* Removes the element at pos; returns the list and the position of the
\* element that followed it.
dlist_remove(l, pos) ==
    [list |-> SubSeq(l, 1, pos - 1) \o SubSeq(l, pos + 1, Len(l)),
     pos  |-> pos]

dlist_kill(l) == << >>

\* --------------------------------------------------------------- events
\* What a call does to the caller's objects, in order.

Event(ev, a, b) == [ev |-> ev, a |-> a, b |-> b]

\* The key objects passed to the key free function so far.
FreedKeys(tr) == {tr[i].a : i \in {j \in DOMAIN tr : tr[j].ev = "key_free"}}

\* The number of comparisons made so far that read a freed key object.
NumDangling(tr) ==
    Cardinality({j \in DOMAIN tr :
        /\ tr[j].ev = "key_cmp"
        /\ \E i \in 1..(j - 1) :
              tr[i].ev = "key_free" /\ tr[i].a \in {tr[j].a, tr[j].b}})

\* --------------------------------------------------------------- table

\* struct table, as table_empty() fills it in.
table_empty(key_cmp_func, key_free_func, value_free_func) ==
    [entries         |-> dlist_empty,
     key_cmp_func    |-> key_cmp_func,
     key_free_func   |-> key_free_func,
     value_free_func |-> value_free_func]

\* A table_is_empty() that returns the negation.
table_is_empty_negated(t) == ~dlist_is_empty(t.entries)

table_is_empty(t) == dlist_is_empty(t.entries)

\* struct table_entry
table_entry(key, value) == [key |-> key, value |-> value]

\* A table_insert() that puts the new entry at the end of the list.
table_insert_last(t, key, value) ==
    LET entry == table_entry(key, value)
    IN  [t EXCEPT !.entries = dlist_insert(t.entries, entry, Len(t.entries) + 1)]

\* A table_insert() that replaces the entries with an equal key.
table_insert_unique(t, key, value) ==
    LET entry == table_entry(key, value)
        other == SelectSeq(t.entries,
                     LAMBDA e : compare_function(t.key_cmp_func, e.key, key) # 0)
    IN  [t EXCEPT !.entries = dlist_insert(other, entry, dlist_first(other))]

table_insert(t, key, value) ==
    LET entry == table_entry(key, value)
    IN  [t EXCEPT !.entries = dlist_insert(t.entries, entry, dlist_first(t.entries))]

\* A table_lookup() loop whose test is if (key_cmp_func(entry->key, key)).
RECURSIVE table_lookup_while_nonzero(_, _, _, _)
table_lookup_while_nonzero(t, key, pos, tr) ==
    IF dlist_is_end(t.entries, pos)
    THEN [ret |-> NULL, trace |-> tr]
    ELSE LET entry == dlist_inspect(t.entries, pos)
             tr1   == Append(tr, Event("key_cmp", entry.key, key))
         IN  IF key_cmp_call(t.key_cmp_func, entry.key, key, {}, 0) # 0
             THEN [ret |-> entry.value, trace |-> tr1]
             ELSE table_lookup_while_nonzero(t, key, dlist_next(t.entries, pos), tr1)

\* The loop of table_lookup() from position pos on: the value returned and
\* the calls made.
RECURSIVE table_lookup_while(_, _, _, _)
table_lookup_while(t, key, pos, tr) ==
    IF dlist_is_end(t.entries, pos)
    THEN [ret |-> NULL, trace |-> tr]
    ELSE LET entry == dlist_inspect(t.entries, pos)
             tr1   == Append(tr, Event("key_cmp", entry.key, key))
         IN  IF key_cmp_call(t.key_cmp_func, entry.key, key, {}, 0) = 0
             THEN [ret |-> entry.value, trace |-> tr1]
             ELSE table_lookup_while(t, key, dlist_next(t.entries, pos), tr1)

\* A table_lookup() that compares every entry and then returns the value
\* of the first match.
table_lookup_scan_all(t, key) ==
    [ret   |-> table_lookup_while(t, key, dlist_first(t.entries), << >>).ret,
     trace |-> [i \in DOMAIN t.entries |-> Event("key_cmp", t.entries[i].key, key)]]

table_lookup(t, key) ==
    table_lookup_while(t, key, dlist_first(t.entries), << >>)

\* A table_remove() loop that calls the free functions on every entry it
\* inspects, before it compares the key.
RECURSIVE table_remove_while_free_first(_, _, _, _, _)
table_remove_while_free_first(t, key, pos, tr, ub) ==
    IF dlist_is_end(t.entries, pos)
    THEN [t |-> t, trace |-> tr]
    ELSE LET entry == dlist_inspect(t.entries, pos)
             tr1   == IF t.key_free_func # "NULL"
                      THEN Append(tr, Event("key_free", entry.key, NULL))
                      ELSE tr
             tr2   == IF t.value_free_func # "NULL"
                      THEN Append(tr1, Event("value_free", entry.value, NULL))
                      ELSE tr1
             tr3   == Append(tr2, Event("key_cmp", entry.key, key))
         IN  IF compare_function(t.key_cmp_func, entry.key, key) = 0
             THEN LET r == dlist_remove(t.entries, pos)
                  IN  table_remove_while_free_first([t EXCEPT !.entries = r.list],
                          key, r.pos,
                          Append(tr3, Event("dlist_remove", entry.key, entry.value)), ub)
             ELSE table_remove_while_free_first(t, key, dlist_next(t.entries, pos),
                                                tr3, ub)

\* A table_remove() loop that removes the matching entries without calling
\* the free functions.
RECURSIVE table_remove_while_leak(_, _, _, _, _)
table_remove_while_leak(t, key, pos, tr, ub) ==
    IF dlist_is_end(t.entries, pos)
    THEN [t |-> t, trace |-> tr]
    ELSE LET entry == dlist_inspect(t.entries, pos)
             tr1   == Append(tr, Event("key_cmp", entry.key, key))
         IN  IF compare_function(t.key_cmp_func, entry.key, key) = 0
             THEN LET r == dlist_remove(t.entries, pos)
                  IN  table_remove_while_leak([t EXCEPT !.entries = r.list], key, r.pos,
                          Append(tr1, Event("dlist_remove", entry.key, entry.value)), ub)
             ELSE table_remove_while_leak(t, key, dlist_next(t.entries, pos), tr1, ub)

\* A table_remove() loop that, after removing an entry, advances from the
\* position dlist_remove() returned: pos = dlist_next(dlist_remove(pos)).
RECURSIVE table_remove_while_skip(_, _, _, _, _)
table_remove_while_skip(t, key, pos, tr, ub) ==
    IF dlist_is_end(t.entries, pos)
    THEN [t |-> t, trace |-> tr]
    ELSE LET entry == dlist_inspect(t.entries, pos)
             tr1   == Append(tr, Event("key_cmp", entry.key, key))
         IN  IF compare_function(t.key_cmp_func, entry.key, key) = 0
             THEN LET r == dlist_remove(t.entries, pos)
                  IN  table_remove_while_skip([t EXCEPT !.entries = r.list], key,
                          dlist_next(r.list, r.pos),
                          Append(tr1, Event("dlist_remove", entry.key, entry.value)), ub)
             ELSE table_remove_while_skip(t, key, dlist_next(t.entries, pos), tr1, ub)

\* The loop of table_remove() from position pos on: the table left and the
\* calls made.  ub[n] is the result of the n-th comparison of the call that
\* reads a key object the call has already freed.
RECURSIVE table_remove_while(_, _, _, _, _)
table_remove_while(t, key, pos, tr, ub) ==
    IF dlist_is_end(t.entries, pos)
    THEN [t |-> t, trace |-> tr]
    ELSE LET entry == dlist_inspect(t.entries, pos)
             freed == FreedKeys(tr)
             u     == IF entry.key \in freed \/ key \in freed
                      THEN ub[NumDangling(tr) + 1]
                      ELSE 0
             c     == key_cmp_call(t.key_cmp_func, entry.key, key, freed, u)
             tr1   == Append(tr, Event("key_cmp", entry.key, key))
         IN  IF c = 0
             THEN LET tr2 == IF t.key_free_func # "NULL"
                             THEN Append(tr1, Event("key_free", entry.key, NULL))
                             ELSE tr1
                      tr3 == IF t.value_free_func # "NULL"
                             THEN Append(tr2, Event("value_free", entry.value, NULL))
                             ELSE tr2
                      r   == dlist_remove(t.entries, pos)
                  IN  table_remove_while([t EXCEPT !.entries = r.list], key, r.pos,
                          Append(tr3, Event("dlist_remove", entry.key, entry.value)), ub)
             ELSE table_remove_while(t, key, dlist_next(t.entries, pos), tr1, ub)

table_remove(t, key, ub) ==
    table_remove_while(t, key, dlist_first(t.entries), << >>, ub)

\* A table_kill() loop that forgets the value free function.
RECURSIVE table_kill_while_keys_only(_, _, _)
table_kill_while_keys_only(t, pos, tr) ==
    IF dlist_is_end(t.entries, pos)
    THEN tr
    ELSE LET entry == dlist_inspect(t.entries, pos)
             tr1   == IF t.key_free_func # "NULL"
                      THEN Append(tr, Event("key_free", entry.key, NULL))
                      ELSE tr
         IN  table_kill_while_keys_only(t, dlist_next(t.entries, pos), tr1)

\* The loop of table_kill() from position pos on: the calls made.
RECURSIVE table_kill_while(_, _, _)
table_kill_while(t, pos, tr) ==
    IF dlist_is_end(t.entries, pos)
    THEN tr
    ELSE LET entry == dlist_inspect(t.entries, pos)
             tr1   == IF t.key_free_func # "NULL"
                      THEN Append(tr, Event("key_free", entry.key, NULL))
                      ELSE tr
             tr2   == IF t.value_free_func # "NULL"
                      THEN Append(tr1, Event("value_free", entry.value, NULL))
                      ELSE tr1
         IN  table_kill_while(t, dlist_next(t.entries, pos), tr2)

\* table_kill(): the calls made and what is left of the list.
table_kill(t) ==
    [t     |-> [t EXCEPT !.entries = dlist_kill(t.entries)],
     trace |-> table_kill_while(t, dlist_first(t.entries), << >>)]

\* The loop of table_print() from position pos on: the calls of print_func.
RECURSIVE table_print_while(_, _, _)
table_print_while(t, pos, tr) ==
    IF dlist_is_end(t.entries, pos)
    THEN tr
    ELSE LET e == dlist_inspect(t.entries, pos)
         IN  table_print_while(t, dlist_next(t.entries, pos),
                               Append(tr, Event("print_func", e.key, e.value)))

\* A table_print() that starts at the position after the first.
table_print_from_second(t) ==
    table_print_while(t, dlist_next(t.entries, dlist_first(t.entries)), << >>)

table_print(t) == table_print_while(t, dlist_first(t.entries), << >>)

\* --------------------------------------------------------------- state

VARIABLES
    state,        \* "Live" from table_empty() until table_kill(), then "Destroyed"
    t,            \* struct table
    op,           \* the last call: its name and its key and value arguments
    pre,          \* t->entries when the last call started
    ret,          \* what the last call returned (NULL for a void function)
    trace,        \* the calls the last call made, in order
    age,          \* the inserted pairs that are still stored, newest first
    owed          \* for each key handle and each value handle: how often it
                  \* was inserted into a table that has the free function
                  \* for it, less how often that function was called on it

vars == << state, t, op, pre, ret, trace, age, owed >>

Call(name, key, value) == [name |-> name, key |-> key, value |-> value]

\* The key objects the table stores.
StoredKeys(l) == {l[i].key : i \in DOMAIN l}

\* How often the calls tr pass the handle h to the free function ev.
FreeCalls(tr, ev, h) ==
    Cardinality({j \in DOMAIN tr : tr[j].ev = ev /\ tr[j].a = h})

\* What is owed once table_insert(key, value) has handed over a pair.
Owe(o, tb, key, value) ==
    [keys   |-> IF tb.key_free_func # "NULL"
                THEN [o.keys EXCEPT ![key] = @ + 1]
                ELSE o.keys,
     values |-> IF tb.value_free_func # "NULL"
                THEN [o.values EXCEPT ![value] = @ + 1]
                ELSE o.values]

\* What is owed once the calls tr have been made.
Settle(o, tr) ==
    [keys   |-> [h \in KeyHandles |-> o.keys[h] - FreeCalls(tr, "key_free", h)],
     values |-> [v \in Values |-> o.values[v] - FreeCalls(tr, "value_free", v)]]

Init ==
    /\ state = "Live"
    /\ \E key_cmp_func \in CompareFunctions :
       \E key_free_func \in FreeFunctions :
       \E value_free_func \in FreeFunctions :
           t = table_empty(key_cmp_func, key_free_func, value_free_func)
    /\ op = Call("table_empty", NULL, NULL)
    /\ pre = << >>
    /\ ret = NULL
    /\ trace = << >>
    /\ age = << >>
    /\ owed = [keys |-> [h \in KeyHandles |-> 0], values |-> [v \in Values |-> 0]]

TableIsEmpty ==
    /\ state = "Live"
    /\ ret' = table_is_empty(t)
    /\ op' = Call("table_is_empty", NULL, NULL)
    /\ pre' = t.entries
    /\ trace' = << >>
    /\ UNCHANGED << state, t, age, owed >>

\* The caller passes a key object that the table does not store yet.
TableInsert ==
    /\ state = "Live"
    /\ Len(t.entries) < MaxEntries
    /\ \E key \in KeyHandles \ StoredKeys(t.entries) :
       \E value \in Values :
           /\ t' = table_insert(t, key, value)
           /\ op' = Call("table_insert", key, value)
           /\ age' = << table_entry(key, value) >> \o age
           /\ owed' = Owe(owed, t, key, value)
    /\ pre' = t.entries
    /\ ret' = NULL
    /\ trace' = << >>
    /\ UNCHANGED state

\* A table_lookup() that moves the entry it finds to the front of the list.
TableLookupMoveToFront ==
    /\ state = "Live"
    /\ \E key \in KeyHandles :
       \E r \in {table_lookup(t, key)} :
           /\ ret' = r.ret
           /\ trace' = r.trace
           /\ op' = Call("table_lookup", key, NULL)
           /\ t' = IF Len(r.trace) = 0 \/ r.trace[Len(r.trace)].a # t.entries[Len(r.trace)].key
                      \/ compare_function(t.key_cmp_func, t.entries[Len(r.trace)].key, key) # 0
                   THEN t
                   ELSE [t EXCEPT !.entries =
                            << t.entries[Len(r.trace)] >>
                            \o dlist_remove(t.entries, Len(r.trace)).list]
    /\ pre' = t.entries
    /\ UNCHANGED << state, age, owed >>

TableLookup ==
    /\ state = "Live"
    /\ \E key \in KeyHandles :
       \E r \in {table_lookup(t, key)} :
           /\ ret' = r.ret
           /\ trace' = r.trace
           /\ op' = Call("table_lookup", key, NULL)
    /\ pre' = t.entries
    /\ UNCHANGED << state, t, age, owed >>

\* A table_remove() that also frees the table once its list is empty.
TableRemoveFreesEmpty ==
    /\ state = "Live"
    /\ \E key \in KeyHandles :
       \E ub \in OraclesFor(t.entries, key, t.key_free_func) :
       \E r \in {table_remove(t, key, ub)} :
       \E left \in {StoredKeys(r.t.entries)} :
           /\ t' = r.t
           /\ trace' = r.trace
           /\ op' = Call("table_remove", key, NULL)
           /\ age' = SelectSeq(age, LAMBDA e : e.key \in left)
           /\ owed' = Settle(owed, r.trace)
           /\ state' = IF dlist_is_empty(r.t.entries) THEN "Destroyed" ELSE state
    /\ pre' = t.entries
    /\ ret' = NULL

\* The key argument is any key object of the caller, stored or not.
TableRemove ==
    /\ state = "Live"
    /\ \E key \in KeyHandles :
       \E ub \in OraclesFor(t.entries, key, t.key_free_func) :
       \E r \in {table_remove(t, key, ub)} :
       \E left \in {StoredKeys(r.t.entries)} :
           /\ t' = r.t
           /\ trace' = r.trace
           /\ op' = Call("table_remove", key, NULL)
           /\ age' = SelectSeq(age, LAMBDA e : e.key \in left)
           /\ owed' = Settle(owed, r.trace)
    /\ pre' = t.entries
    /\ ret' = NULL
    /\ UNCHANGED state

TableKill ==
    /\ state = "Live"
    /\ \E r \in {table_kill(t)} :
           /\ t' = r.t
           /\ trace' = r.trace
           /\ owed' = Settle(owed, r.trace)
    /\ state' = "Destroyed"
    /\ op' = Call("table_kill", NULL, NULL)
    /\ pre' = t.entries
    /\ ret' = NULL
    /\ UNCHANGED age

TablePrint ==
    /\ state = "Live"
    /\ trace' = table_print(t)
    /\ op' = Call("table_print", NULL, NULL)
    /\ pre' = t.entries
    /\ ret' = NULL
    /\ UNCHANGED << state, t, age, owed >>

Next ==
    \/ TableIsEmpty
    \/ TableInsert
    \/ TableLookup
    \/ TableRemove
    \/ TableKill
    \/ TablePrint

Spec == Init /\ [][Next]_vars

\* ============================================================== claims

\* Two live key objects compare equal: key_cmp(a, b) == 0.
KeyEq(a, b) == Content(a) = Content(b)

\* The positions of list l whose key compares equal to key.
Matching(l, key) == {i \in DOMAIN l : KeyEq(l[i].key, key)}

Min(S) == CHOOSE x \in S : \A y \in S : x <= y

\* How often the last call passed the handle h to the key free function,
\* and the handle v to the value free function.
KeyFreeCount(h) ==
    Cardinality({j \in DOMAIN trace : trace[j].ev = "key_free" /\ trace[j].a = h})

ValueFreeCount(v) ==
    Cardinality({j \in DOMAIN trace : trace[j].ev = "value_free" /\ trace[j].a = v})

\* The last call compared no key object that it had freed before.
NoDanglingCompare == NumDangling(trace) = 0

\* C1: table_lookup(k) returns the value of the most recent table_insert()
\* whose key compares equal to k (latest wins), among the inserted pairs
\* that no table_remove() has deleted since.
C1_LatestWins ==
    (op.name = "table_lookup" /\ Matching(age, op.key) # {})
        => ret = age[Min(Matching(age, op.key))].value

\* A lookup of a key inserted twice with different values returns the
\* value of the later insert.
C1_Witness ==
    /\ op.name = "table_lookup"
    /\ \E i, j \in Matching(age, op.key) :
          i < j /\ age[i].value # age[j].value /\ ret = age[i].value

\* C2: after table_remove(k) the entries left are exactly those whose key
\* does not compare equal to k, in their order before the call.
C2_RemoveAll ==
    op.name = "table_remove"
        => t.entries = SelectSeq(pre, LAMBDA e : ~KeyEq(e.key, op.key))

\* C3: table_is_empty() returns true exactly when no inserted pair is
\* still stored.
C3_IsEmpty ==
    op.name = "table_is_empty" => (ret <=> (age = << >>))

\* table_is_empty() returns false on a table that holds several pairs.
C3_Witness ==
    /\ op.name = "table_is_empty"
    /\ ret = FALSE
    /\ Len(age) > 1

\* C4: table_kill() calls the key free function, if there is one, exactly
\* once on the key of every entry stored, the value free function, if
\* there is one, exactly once on the value of every entry stored, and
\* calls no free function that is NULL.
C4_KillFrees ==
    op.name = "table_kill" =>
        /\ \A h \in KeyHandles :
              KeyFreeCount(h) =
                  IF t.key_free_func # "NULL" /\ h \in StoredKeys(pre) THEN 1 ELSE 0
        /\ \A v \in Values :
              ValueFreeCount(v) =
                  IF t.value_free_func # "NULL"
                  THEN Cardinality({i \in DOMAIN pre : pre[i].value = v})
                  ELSE 0

\* A table with a key free function and no value free function is killed
\* while it holds several entries.
C4_Witness ==
    /\ op.name = "table_kill"
    /\ Len(pre) > 1
    /\ t.key_free_func # "NULL"
    /\ t.value_free_func = "NULL"
    /\ \A i \in DOMAIN pre : KeyFreeCount(pre[i].key) = 1
\* The place in the last call's trace of the event ev on handle h (0 if
\* there is none).
EventAt(ev, h) ==
    LET at == {j \in DOMAIN trace : trace[j].ev = ev /\ trace[j].a = h}
    IN  IF at = {} THEN 0 ELSE Min(at)

\* C5: table_remove(k) calls the key free function on the key and the
\* value free function on the value of every entry whose key compares
\* equal to k, each once and before the entry is removed, calls no free
\* function for any other entry, and none that is NULL.
C5_RemoveFrees ==
    op.name = "table_remove" =>
        /\ \A i \in DOMAIN pre :
              LET e    == pre[i]
                  hit  == KeyEq(e.key, op.key)
              IN  /\ KeyFreeCount(e.key) =
                         IF hit /\ t.key_free_func # "NULL" THEN 1 ELSE 0
                  /\ hit => /\ EventAt("dlist_remove", e.key) > 0
                            /\ EventAt("key_free", e.key) < EventAt("dlist_remove", e.key)
        /\ \A v \in Values :
              ValueFreeCount(v) =
                  IF t.value_free_func # "NULL"
                  THEN Cardinality({i \in Matching(pre, op.key) : pre[i].value = v})
                  ELSE 0
        /\ \A j \in DOMAIN trace :
              trace[j].ev = "value_free" =>
                  /\ j < Len(trace)
                  /\ trace[j + 1].ev = "dlist_remove"
                  /\ trace[j + 1].b = trace[j].a

\* C6: table_lookup(k) returns NULL whenever the table is empty or no
\* entry's key compares equal to k.
C6_LookupNotFound ==
    (op.name = "table_lookup" /\ Matching(pre, op.key) = {}) => ret = NULL

\* A lookup that finds no match in a table of entries with non-NULL values
\* returns NULL.
C6_Witness ==
    /\ op.name = "table_lookup"
    /\ Len(pre) > 1
    /\ Matching(pre, op.key) = {}
    /\ \A i \in DOMAIN pre : pre[i].value # NULL
    /\ ret = NULL

\* C7: table_remove(k) when no entry's key compares equal to k leaves the
\* entries as they were and calls no free function.
C7_RemoveAbsent ==
    (op.name = "table_remove" /\ Matching(pre, op.key) = {}) =>
        /\ t.entries = pre
        /\ \A j \in DOMAIN trace : trace[j].ev = "key_cmp"

\* A remove that finds no match in a table with both free functions
\* compares every entry and leaves them all.
C7_Witness ==
    /\ op.name = "table_remove"
    /\ Len(pre) > 1
    /\ Matching(pre, op.key) = {}
    /\ t.key_free_func # "NULL"
    /\ t.value_free_func # "NULL"
    /\ Len(trace) = Len(pre)
    /\ t.entries = pre

\* C8: table_print() calls print_func once for every pair stored, with its
\* key and value, the most recently inserted first.
C8_PrintOrder ==
    op.name = "table_print" =>
        trace = [i \in 1..Len(age) |->
                    Event("print_func", age[i].key, age[i].value)]

\* A table of three pairs is printed.
C8_Witness ==
    /\ op.name = "table_print"
    /\ Len(trace) > 2
    /\ trace[1].a = age[1].key

\* C9: table_insert(key, value) adds one entry, at the head, in front of
\* the entries stored before, which stay as they were, whether or not one
\* of them has an equal key.
C9_InsertAtHead ==
    op.name = "table_insert" =>
        t.entries = << table_entry(op.key, op.value) >> \o pre

\* A pair is inserted into a table that holds several entries, one of them
\* with an equal key.
C9_Witness ==
    /\ op.name = "table_insert"
    /\ Len(pre) > 1
    /\ Matching(pre, op.key) # {}
    /\ Len(t.entries) = Len(pre) + 1

\* C10: a table is Live or Destroyed; it is Live when created, only
\* table_kill() takes it from Live to Destroyed, and a Destroyed table
\* stays Destroyed.
C10_LifeCycle ==
    /\ state = "Live"
    /\ [][ /\ state' \in {"Live", "Destroyed"}
           /\ (state = "Live" /\ state' = "Destroyed") => op'.name = "table_kill"
           /\ state = "Destroyed" => state' = "Destroyed" ]_vars

\* A table that held entries has been killed.
C10_Witness ==
    /\ state = "Destroyed"
    /\ op.name = "table_kill"
    /\ pre # << >>
\* The statements of C2 and C5 hold of every table_remove() that reads no freed key object.
C2_RemoveAll_Defined == NoDanglingCompare => C2_RemoveAll

C5_RemoveFrees_Defined == NoDanglingCompare => C5_RemoveFrees

\* How many entries of list l hold the key handle h, and the value handle v.
KeysHeld(l, h) == Cardinality({i \in DOMAIN l : l[i].key = h})

ValuesHeld(l, v) == Cardinality({i \in DOMAIN l : l[i].value = v})

\* C11: in a table with both free functions every inserted pair has its
\* key passed to the key free function and its value to the value free
\* function exactly once over the life of the table: while the table is
\* Live the pairs not yet freed are exactly the pairs stored, a call frees
\* as many keys and values as entries leave the table, and once the table
\* is Destroyed nothing is left to free and nothing was freed twice.
C11_FreedOnce ==
    (t.key_free_func # "NULL" /\ t.value_free_func # "NULL") =>
        /\ \A h \in KeyHandles :
              owed.keys[h] = IF state = "Live" THEN KeysHeld(t.entries, h) ELSE 0
        /\ \A v \in Values :
              owed.values[v] = IF state = "Live" THEN ValuesHeld(t.entries, v) ELSE 0
        /\ op.name \in {"table_remove", "table_kill"} =>
              \A ev \in {"key_free", "value_free"} :
                  Cardinality({j \in DOMAIN trace : trace[j].ev = ev})
                      = Len(pre) - Len(t.entries)

\* A table with both free functions is killed while it holds several
\* entries, and nothing is left to free.
C11_Witness ==
    /\ state = "Destroyed"
    /\ t.key_free_func # "NULL"
    /\ t.value_free_func # "NULL"
    /\ Len(pre) > 1
    /\ \A h \in KeyHandles : owed.keys[h] = 0
    /\ \A v \in Values : owed.values[v] = 0
\* The comparisons the last call made, in order.
Comparisons == SelectSeq(trace, LAMBDA e : e.ev = "key_cmp")

\* C12: table_remove(k) ends and has compared every entry that was stored
\* when it started with k exactly once, in list order, whether or not the
\* entry was removed.
C12_RemoveComparesEach ==
    op.name = "table_remove" =>
        Comparisons = [i \in DOMAIN pre |-> Event("key_cmp", pre[i].key, op.key)]

\* A table_remove() on a full table whose first two entries match and are
\* removed: the head, and the entry that followed it.
C12_Witness ==
    /\ op.name = "table_remove"
    /\ Len(pre) > 2
    /\ {1, 2} \subseteq Matching(pre, op.key)
    /\ Len(t.entries) = Len(pre) - 2
    /\ Len(Comparisons) = Len(pre)

\* The position of the first entry of list l that compares equal to key,
\* or the length of l if there is none.
LastCompared(l, key) ==
    IF Matching(l, key) = {} THEN Len(l) ELSE Min(Matching(l, key))

\* C13: table_lookup(k) compares the entries from the head up to and
\* including the first whose key compares equal to k, each once and as
\* key_cmp(stored key, k), and no entry behind it.
C13_LookupStopsAtFirst ==
    op.name = "table_lookup" =>
        trace = [i \in 1..LastCompared(pre, op.key) |->
                    Event("key_cmp", pre[i].key, op.key)]

\* A lookup whose first match is the second entry, with another match
\* behind it that is not compared.
C13_Witness ==
    /\ op.name = "table_lookup"
    /\ Len(pre) > 2
    /\ Matching(pre, op.key) = {2, 3}
    /\ Len(trace) = 2

\* What table_lookup(key) is to return on list l.
FirstValue(l, key) ==
    IF Matching(l, key) = {} THEN NULL ELSE l[Min(Matching(l, key))].value

\* C14: a table_lookup() right after table_remove(k) returns NULL for a
\* key that compares equal to k, and for every other key what it would
\* have returned before the table_remove().
C14_LookupAfterRemove ==
    [][ (op.name = "table_remove" /\ op'.name = "table_lookup") =>
            ret' = IF KeyEq(op'.key, op.key)
                   THEN NULL
                   ELSE FirstValue(pre, op'.key) ]_vars

\* C14 holds after every table_remove() that reads no freed key object.
C14_LookupAfterRemove_Defined ==
    [][ (op.name = "table_remove" /\ NoDanglingCompare /\ op'.name = "table_lookup") =>
            ret' = IF KeyEq(op'.key, op.key)
                   THEN NULL
                   ELSE FirstValue(pre, op'.key) ]_vars

\* C15: table_is_empty(), table_lookup() and table_print() leave the
\* entries, their order, keys and values and the three stored function
\* pointers as they were, and call no free function.
C15_ReadOnly ==
    [][ op'.name \in {"table_is_empty", "table_lookup", "table_print"} =>
            /\ t' = t
            /\ \A j \in DOMAIN trace' :
                  trace'[j].ev \notin {"key_free", "value_free", "dlist_remove"} ]_vars

\* A lookup in a table with both free functions finds its key behind the
\* head, and the list is as it was.
C15_Witness ==
    /\ op.name = "table_lookup"
    /\ t.key_free_func # "NULL"
    /\ t.value_free_func # "NULL"
    /\ Matching(pre, op.key) # {}
    /\ 1 \notin Matching(pre, op.key)
    /\ t.entries = pre

\* C16: whenever some entry's key compares equal to k, table_lookup(k)
\* returns something other than the not-found result NULL.
C16_FoundIsNotNull ==
    (op.name = "table_lookup" /\ Matching(pre, op.key) # {}) => ret # NULL

\* C17: table_remove(k) on a table with a key free function never compares
\* a key object that it has already passed to the key free function.
C17_NoCompareAfterFree ==
    (op.name = "table_remove" /\ t.key_free_func # "NULL") => NoDanglingCompare

====
